---- MODULE Spec2Model ----
(***************************************************************************)
(* A model of codemspace/video-transcript:                                 *)
(*   - the batch scheduler of main.py (__main__, lines 469-520) and the    *)
(*     worker it spawns per file (start_process, lines 360-421);           *)
(*   - the caption segmentation loop of                                    *)
(*     VideoCreation.add_captions_to_video (main.py lines 263-302), with   *)
(*     its caller process() and the overlay of add_text_to_video;          *)
(*   - the end time start_process trims its output to (main.py line 389);  *)
(*   - SRTGenerator.format_srt and format_timestamp (srtgen.py 47-64).     *)
(*                                                                         *)
(* File names are abstracted by their position in os.listdir's result (the *)
(* names of one directory are distinct).  A worker's pid is the ordinal of *)
(* its spawn: the model takes every p.pid to be fresh.  Times are whole    *)
(* numbers of an arbitrary unit in the segmentation, which only copies and *)
(* compares them, and hundredths of a second where the code computes with  *)
(* them (the trim and the SRT time stamps).                                *)
(***************************************************************************)
EXTENDS Integers, Sequences, FiniteSets, TLC

\* ---- bounds of the model ----
MaxQ == 3        \* most files in INPUT_VIDEOS_DIR
MaxCap == 2      \* largest MAX_NUMBER_OF_PROCESSES tried
MaxWords == 9    \* most words in a transcription
MaxGap == 1      \* longest silence before a word
MaxTail == 1     \* longest stretch of the clip after the last word's end
MaxDuration == 200  \* longest output video, in hundredths of a second
MaxSegments == 2 \* most segments of a transcription handed to format_srt

\* ---- program constants ----
WriteTries == 5  \* main.py:395  for pos in range(5)
max_caption_words == 8  \* main.py:271

VARIABLES
    MAX_NUMBER_OF_PROCESSES, \* config value read at main.py:501
    input_video_names,       \* main.py:488
    video_queue,             \* main.py:481, the multiprocessing.Queue as a sequence
    processes,               \* main.py:494, the keys of the dict pid -> Process
    processes_status_dict,   \* main.py:480, manager.dict(): pid -> finished?
    num_active_processes,    \* main.py:495
    main_pc,                 \* position of the main process in lines 499-520
    items,                   \* the pids that the list processes_status_dict.items() of line 511 holds as complete
    spawned,                 \* file names in the order their workers were started (line 506)
    worker,                  \* per pid: the state of start_process in that worker process
    \* add_captions_to_video(clip, timestamps), main.py:263-302
    timestamps,              \* the argument: a sequence of [timestamp |-> <<start, end>>, text |-> word]
    clip_duration,           \* clip.duration of the argument clip
    seg_pc,                  \* position in the function
    seg_pos,                 \* index of the next word of the for loop of line 275
    start_time,              \* main.py:269
    caption_text,            \* main.py:270
    word_count,              \* main.py:273
    clips,                   \* main.py:268
    overlay,                 \* what add_text_to_video meets when it renders a caption (lines 307-322)
    \* the trim of start_process, main.py:389
    video_duration,          \* output_video.duration, in hundredths of a second
    video_fps,               \* output_video.fps
    end_time,                \* main.py:389, in hundredths of a second
    trim_pc,                 \* position in lines 389-392
    \* SRTGenerator.format_srt(segments), srtgen.py:47-55
    segments,                \* the argument: a sequence of [start, end, text], times in hundredths of a second
    srt_content,             \* srtgen.py:49, as the sequence of the cue blocks appended so far
    srt_i,                   \* index of the next segment of the for loop of line 50 (the code's i + 1)
    srt_pc                   \* position in the function

schedvars == << MAX_NUMBER_OF_PROCESSES, input_video_names, video_queue, processes,
                processes_status_dict, num_active_processes, main_pc, items, spawned,
                worker >>

segvars == << timestamps, clip_duration, seg_pc, seg_pos, start_time, caption_text,
              word_count, clips, overlay >>

trimvars == << video_duration, video_fps, end_time, trim_pc >>

srtvars == << segments, srt_content, srt_i, srt_pc >>

vars == << schedvars, segvars, trimvars, srtvars >>

Pids == 1..MaxQ

\* A worker process that has not been started.
NoWorker ==
    [ pc |-> "none",          \* none, start, load, process, write, close, mark, return, exited, crashed, reaped
      file_name |-> 0,        \* args[0] of the Process
      input_video |-> "none", \* handle of line 380: none, open, closed
      output_video |-> "none",\* handle of lines 383/392: none, open, closed
      pos |-> 0,              \* loop variable of line 395
      attempts |-> 0,         \* calls of write_videofile (line 397), counted until the clips are closed
      io_failures |-> 0,      \* IOErrors raised by write_videofile, counted until the clips are closed
      warnings |-> 0,         \* logging.warning calls of line 408, counted until the clips are closed
      errors |-> 0,           \* logging.error calls of line 411
      written |-> FALSE,      \* a write_videofile call returned normally
      raised |-> "none" ]     \* where an uncaught exception left start_process: none, load, process, write

\* ---------------------------------------------------------------------
\* multiprocessing.Queue
\* ---------------------------------------------------------------------
qsize(q) == Len(q)

QueuePut(q, name) == Append(q, name)

\* A wrong Queue.get: hands out the newest entry.
QueueGet_Newest(q) == [ item |-> q[Len(q)], rest |-> SubSeq(q, 1, Len(q) - 1) ]

\* A wrong Queue.get: the entry handed out stays on the queue.
QueueGet_Peek(q) == [ item |-> Head(q), rest |-> q ]

\* Queue.get(): the oldest entry, and the queue without it.
QueueGet(q) == [ item |-> Head(q), rest |-> Tail(q) ]

RECURSIVE PutAll(_, _)
\* main.py:491-492  for name in input_video_names: video_queue.put(name)
PutAll(q, names) ==
    IF names = << >> THEN q ELSE PutAll(QueuePut(q, Head(names)), Tail(names))

\* ---------------------------------------------------------------------
\* The main process (__main__)
\* ---------------------------------------------------------------------
\* A wrong loop test: stops as soon as the queue is empty.
LoopCondition_QueueOnly == qsize(video_queue) # 0

\* main.py:499  while (video_queue.qsize() != 0) or (len(processes) != 0)
LoopCondition == (qsize(video_queue) # 0) \/ (Cardinality(processes) # 0)

\* A wrong dispatch guard: off by one against the cap.
CanDispatch_OffByOne ==
    (num_active_processes <= MAX_NUMBER_OF_PROCESSES) /\ (qsize(video_queue) > 0)

\* main.py:501
CanDispatch ==
    (num_active_processes < MAX_NUMBER_OF_PROCESSES) /\ (qsize(video_queue) > 0)

\* A wrong reap test: every entry of the status map counts as complete.
CompleteItems_All(d) == DOMAIN d

\* main.py:511-512 the pids whose entry in the list of the status map's
\* items is True.
CompleteItems(d) == { pid \in DOMAIN d : d[pid] }

\* State after lines 469-496: directories listed, names queued, nothing started.
SchedInit ==
    /\ MAX_NUMBER_OF_PROCESSES \in 1..MaxCap
    /\ \E Q \in 0..MaxQ : input_video_names = [i \in 1..Q |-> i]
    /\ video_queue = PutAll(<< >>, input_video_names)
    /\ processes = {}
    /\ processes_status_dict = << >>
    /\ num_active_processes = 0
    /\ main_pc = "while"
    /\ items = {}
    /\ spawned = << >>
    /\ worker = [p \in Pids |-> NoWorker]

\* main.py:499-508 the loop test (on exit lines 519-520); in the loop, start
\* one worker if the cap and the queue allow (lines 501-508): the worker is
\* recorded in processes (line 507) before the main process looks at the
\* status map again.
LoopIteration ==
    /\ main_pc = "while"
    /\ IF ~LoopCondition
         THEN /\ main_pc' = "done"
              /\ UNCHANGED << video_queue, worker, spawned, processes,
                              num_active_processes, items >>
         ELSE /\ IF CanDispatch
                   THEN LET got == QueueGet(video_queue)
                            pid == Len(spawned) + 1
                        IN /\ video_queue' = got.rest
                           /\ worker' = [worker EXCEPT ![pid] =
                                 [NoWorker EXCEPT !.pc = "start", !.file_name = got.item]]
                           /\ spawned' = Append(spawned, got.item)
                           /\ processes' = processes \cup {pid}
                           /\ num_active_processes' = num_active_processes + 1
                   ELSE UNCHANGED << video_queue, worker, spawned, processes,
                                     num_active_processes >>
              /\ main_pc' = "items"
              /\ UNCHANGED items
    /\ UNCHANGED << MAX_NUMBER_OF_PROCESSES, input_video_names, processes_status_dict >>
    /\ UNCHANGED << segvars, trimvars, srtvars >>

\* A wrong reap: the status entries of the reaped workers are left in the map.
DeleteStatus_Kept(d, complete) == d

\* main.py:515  del processes_status_dict[pid], for each complete pid
DeleteStatus(d, complete) == [q \in DOMAIN d \ complete |-> d[q]]

\* A wrong count: one slot is released per pass of the reap loop.
ReleaseSlots_OncePerPass(n, complete) == IF complete = {} THEN n ELSE n - 1

\* main.py:516  num_active_processes -= 1, once for each complete pid
ReleaseSlots(n, complete) == n - Cardinality(complete)

\* main.py:511 processes_status_dict.items(): the list the for loop runs over.
TakeItems ==
    /\ main_pc = "items"
    /\ items' = CompleteItems(processes_status_dict)
    /\ main_pc' = "reap"
    /\ UNCHANGED << MAX_NUMBER_OF_PROCESSES, input_video_names, video_queue, processes,
                    processes_status_dict, num_active_processes, spawned, worker >>
    /\ UNCHANGED << segvars, trimvars, srtvars >>

\* The worker process has ended (returned or died), so join() returns.
ProcessEnded(p) == worker[p].pc \in {"exited", "crashed", "reaped"}

\* main.py:511-516 the for loop over the items taken at line 511; an item
\* that is not complete is passed over (line 512).  join()
\* returns once the worker process has ended; a pid missing from processes
\* raises KeyError in the main process.  The loop touches only the main
\* process's own variables and the status entries of workers that have set
\* theirs to True and write nothing afterwards, so it is taken as one step.
\* Of a joined and dropped worker only the file name it was given is kept.
Reap ==
    /\ main_pc = "reap"
    /\ LET complete == items
       IN IF complete \subseteq processes
            THEN /\ \A pid \in complete : ProcessEnded(pid)
                 /\ processes' = processes \ complete
                 /\ processes_status_dict' = DeleteStatus(processes_status_dict, complete)
                 /\ num_active_processes' = ReleaseSlots(num_active_processes, complete)
                 /\ worker' = [p \in Pids |->
                                 IF p \in complete
                                   THEN [NoWorker EXCEPT !.pc = "reaped",
                                                         !.file_name = worker[p].file_name]
                                   ELSE worker[p]]
                 /\ main_pc' = "while"
            ELSE /\ main_pc' = "KeyError"
                 /\ UNCHANGED << processes, processes_status_dict, num_active_processes,
                                 worker >>
    /\ items' = {}
    /\ UNCHANGED << MAX_NUMBER_OF_PROCESSES, input_video_names, video_queue, spawned >>
    /\ UNCHANGED << segvars, trimvars, srtvars >>

MainStep == LoopIteration \/ TakeItems \/ Reap

\* ---------------------------------------------------------------------
\* A worker process (start_process)
\* ---------------------------------------------------------------------
SetStatus(d, pid, v) == [q \in DOMAIN d \cup {pid} |-> IF q = pid THEN v ELSE d[q]]

WorkerUnchanged ==
    UNCHANGED << MAX_NUMBER_OF_PROCESSES, input_video_names, video_queue, processes,
                 num_active_processes, main_pc, items, spawned, segvars,
                 trimvars, srtvars >>

\* What is left of a worker process once it has ended: how it ended, whether
\* it wrote its output or logged the error of line 411, and the clip handles
\* it held then; its local variables and counters are gone.
Ended(w, how, where) ==
    [NoWorker EXCEPT !.pc = how, !.raised = where, !.file_name = w.file_name,
                     !.input_video = w.input_video, !.output_video = w.output_video,
                     !.written = w.written, !.errors = w.errors]

\* An uncaught exception leaves start_process: the process dies, nothing
\* after the raising line runs.
Raise(w, where) == Ended(w, "crashed", where)

\* main.py:374-377 processes_status_dict[pid] = False
MarkRunning(p) ==
    /\ worker[p].pc = "start"
    /\ processes_status_dict' = SetStatus(processes_status_dict, p, FALSE)
    /\ worker' = [worker EXCEPT ![p].pc = "load"]
    /\ WorkerUnchanged

\* main.py:380 VideoFileClip(...) returns a clip or raises.
LoadInput(p) ==
    /\ worker[p].pc = "load"
    /\ \E ok \in BOOLEAN :
         worker' = [worker EXCEPT ![p] =
                      IF ok THEN [@ EXCEPT !.pc = "process", !.input_video = "open"]
                            ELSE Raise(@, "load")]
    /\ UNCHANGED processes_status_dict
    /\ WorkerUnchanged

\* main.py:383-392 VideoCreation(input_video).process() returns the clip
\* itself when the transcription is empty (line 222) or the captioned clip
\* (line 226), and output_video becomes its subclip up to end_time; or the
\* transcription or the assembly raises.
ProcessVideo(p) ==
    /\ worker[p].pc = "process"
    /\ \E outcome \in {"empty", "captioned", "raise"} :
         worker' = [worker EXCEPT ![p] =
                      IF outcome = "raise" THEN Raise(@, "process")
                      ELSE [@ EXCEPT !.pc = "write", !.output_video = "open"]]
    /\ UNCHANGED processes_status_dict
    /\ WorkerUnchanged

\* A wrong handler: the first failure is not logged.
OnIOError_QuietFirst(w) ==
    LET logged == [w EXCEPT !.warnings = IF w.pos = 0 THEN @ ELSE @ + 1, !.pos = @ + 1]
    IN IF logged.pos < WriteTries
         THEN logged
         ELSE [logged EXCEPT !.errors = @ + 1, !.pc = "close"]

\* main.py:407-411 except IOError: warn, sleep, next pos; when range(5) is
\* used up the for's else branch logs the error and the function goes on.
OnIOError(w) ==
    LET logged == [w EXCEPT !.warnings = @ + 1, !.pos = @ + 1]
    IN IF logged.pos < WriteTries
         THEN logged
         ELSE [logged EXCEPT !.errors = @ + 1, !.pc = "close"]

\* main.py:397-406 one call of write_videofile: it returns (break), raises
\* IOError, or raises something else, which nothing catches.
WriteAttempt(p) ==
    /\ worker[p].pc = "write"
    /\ worker[p].pos < WriteTries
    /\ \E outcome \in {"ok", "IOError", "other"} :
         LET w == [worker[p] EXCEPT !.attempts = @ + 1]
         IN worker' = [worker EXCEPT ![p] =
              CASE outcome = "ok" -> [w EXCEPT !.written = TRUE, !.pc = "close"]
                [] outcome = "IOError" -> OnIOError([w EXCEPT !.io_failures = @ + 1])
                [] outcome = "other" -> Raise(w, "write")]
    /\ UNCHANGED processes_status_dict
    /\ WorkerUnchanged

\* main.py:414-415 input_video.close(); output_video.close()
CloseClips(p) ==
    /\ worker[p].pc = "close"
    /\ worker' = [worker EXCEPT ![p] =
                      [@ EXCEPT !.input_video = "closed", !.output_video = "closed",
                                !.pos = 0, !.attempts = 0, !.io_failures = 0,
                                !.warnings = 0, !.pc = "mark"]]
    /\ UNCHANGED processes_status_dict
    /\ WorkerUnchanged

\* main.py:421 processes_status_dict[pid] = True
MarkFinished(p) ==
    /\ worker[p].pc = "mark"
    /\ processes_status_dict' = SetStatus(processes_status_dict, p, TRUE)
    /\ worker' = [worker EXCEPT ![p].pc = "return"]
    /\ WorkerUnchanged

\* start_process returns and the worker process ends.
ProcessExit(p) ==
    /\ worker[p].pc = "return"
    /\ worker' = [worker EXCEPT ![p] = Ended(@, "exited", "none")]
    /\ UNCHANGED processes_status_dict
    /\ WorkerUnchanged

WorkerStep(p) ==
    \/ MarkRunning(p)
    \/ LoadInput(p)
    \/ ProcessVideo(p)
    \/ WriteAttempt(p)
    \/ CloseClips(p)
    \/ MarkFinished(p)
    \/ ProcessExit(p)

\* ---------------------------------------------------------------------
\* The scheduler as a system
\* ---------------------------------------------------------------------
\* add_captions_to_video is not running.
SegIdle ==
    /\ timestamps = << >>
    /\ clip_duration = 0
    /\ seg_pc = "off"
    /\ seg_pos = 0
    /\ start_time = 0
    /\ caption_text = << >>
    /\ word_count = 0
    /\ clips = << >>
    /\ overlay = "ok"

\* The trim of start_process is not being computed.
TrimIdle ==
    /\ video_duration = 0
    /\ video_fps = 1
    /\ end_time = 0
    /\ trim_pc = "off"

\* format_srt is not running.
SrtIdle ==
    /\ segments = << >>
    /\ srt_content = << >>
    /\ srt_i = 0
    /\ srt_pc = "off"

Init == SchedInit /\ SegIdle /\ TrimIdle /\ SrtIdle

Next == MainStep \/ \E p \in Pids : WorkerStep(p)

Spec == Init /\ [][Next]_vars

\* The main process spins in its loop and the operating system runs every
\* started worker process.
FairSpec == Spec /\ WF_vars(MainStep) /\ \A p \in Pids : WF_vars(WorkerStep(p))

\* ---------------------------------------------------------------------
\* VideoCreation.add_captions_to_video
\* ---------------------------------------------------------------------
\* A string is a sequence of one-character strings.
Letters == << "a", "b", "c", "d", "e", "f", "g", "h", "i", "j", "k", "l" >>

\* The characters a word of the transcription may end with: the three that
\* close a caption, and a comma, which does not.
Marks == { ".", "!", "?", "," }

Whitespace == { " " }

RECURSIVE LStrip(_)
LStrip(str) ==
    IF str # << >> /\ Head(str) \in Whitespace THEN LStrip(Tail(str)) ELSE str

RECURSIVE RStrip(_)
RStrip(str) ==
    IF str # << >> /\ str[Len(str)] \in Whitespace
      THEN RStrip(SubSeq(str, 1, Len(str) - 1))
      ELSE str

\* str.strip()
Strip(str) == RStrip(LStrip(str))

\* str.endswith(suffixes) for one-character suffixes
EndsWith(str, suffixes) == str # << >> /\ str[Len(str)] \in suffixes

\* A wrong test: closes only past the cap.
ClosesCaption_CapOffByOne(count, word) ==
    count > max_caption_words \/ EndsWith(word, {".", "!", "?"})

\* main.py:284  word_count >= max_caption_words or word.endswith(('.', '!', '?'))
ClosesCaption(count, word) ==
    count >= max_caption_words \/ EndsWith(word, {".", "!", "?"})

\* A wrong test of the argument: never empty.
NoTimestamps_Never(ts) == FALSE

\* main.py:220 and 265  not transcription / len(timestamps) == 0
NoTimestamps(ts) == Len(ts) = 0

\* A wrong accumulation: the word is appended without the space.
AppendWord_NoSpace(text, word) == text \o word

\* main.py:280  caption_text += f" {word}"
AppendWord(text, word) == text \o << " " >> \o word

\* A wrong reset: the start of the next caption is left where it was.
NextStartTime_Kept(start, end) == start

\* main.py:290  start_time = end
NextStartTime(start, end) == end

\* A wrong test of what is left: never anything.
HasRemainder_Never(text) == FALSE

\* main.py:295  if caption_text:
HasRemainder(text) == text # << >>

\* A wrong subclip: the two times are taken in the other order.
Subclip_Swapped(t_start, t_end) == [start |-> t_end, end |-> t_start]

\* clip.subclip(t_start, t_end), lines 286 and 296: the stretch of the clip.
Subclip(t_start, t_end) == [start |-> t_start, end |-> t_end]

\* What add_text_to_video can meet: the font file is there, loads and the
\* text is drawn; the file is missing (line 308); ImageFont.truetype raises
\* IOError (lines 328-332); or a call of lines 334-344 (Image.new,
\* draw.textbbox, draw.text, crop), which no try encloses, raises.
OverlayOutcomes == { "ok", "font_missing", "font_unloadable", "render_raises" }

\* add_text_to_video does not return: the exception of create_text_image
\* leaves it, add_captions_to_video and process().
RenderRaises(met) == met = "render_raises"

\* main.py:305-324 add_text_to_video(clip, text): the clip itself when the
\* font file is missing (line 310) or create_text_image returned None (line
\* 316); else the clip with the text laid over it, its time range the clip's.
AddTextToVideo(sub, text, met) ==
    IF met \in { "font_missing", "font_unloadable" }
      THEN sub
      ELSE [start |-> sub.start, end |-> sub.end, text |-> text]

\* The lengths a word may have: none or one unit.
WordLengths == { 0, 1 }

\* The i-th word of a transcription: it starts gap after the word before it
\* ended, lasts length, and ends with mark when i is in punct.
Word(i, gap, length, punct, mark) ==
    [ timestamp |-> << (i - 1) * (gap + length) + gap, i * (gap + length) >>,
      text |-> << Letters[((i - 1) % Len(Letters)) + 1] >>
                 \o (IF i \in punct THEN << mark >> ELSE << >>) ]

\* The call process() of a VideoCreation whose transcription has at most
\* MaxWords words, ordered and not overlapping, and whose clip lasts until the
\* last word's end or longer (and is not empty): the state at line 217.
Transcribed(gaps, lengths, marks, tails, outcomes) ==
    /\ \E n \in 0..MaxWords, gap \in gaps, length \in lengths, mark \in marks :
         \E punct \in SUBSET (1..n) :
            timestamps = [i \in 1..n |-> Word(i, gap, length, punct, mark)]
    /\ \E tail \in tails :
         LET last_end == IF timestamps = << >> THEN 0
                         ELSE timestamps[Len(timestamps)].timestamp[2]
         IN clip_duration = (IF last_end = 0 THEN 1 ELSE last_end) + tail
    /\ overlay \in outcomes
    /\ seg_pc = "process"
    /\ seg_pos = 0
    /\ start_time = 0
    /\ caption_text = << >>
    /\ word_count = 0
    /\ clips = << >>

\* Every caption is rendered.
SegStart == Transcribed(0..MaxGap, WordLengths, Marks, 0..MaxTail, { "ok" })

\* Whatever add_text_to_video meets, for words one unit long and apart.
OverlayStart == Transcribed({ 1 }, { 1 }, { "." }, { 1 }, OverlayOutcomes)

\* main.py:216-224 process(): an empty transcription returns self.clip (line
\* 222); else add_captions_to_video is called, whose result process() returns.
Process ==
    /\ seg_pc = "process"
    /\ seg_pc' = IF NoTimestamps(timestamps) THEN "returned_clip" ELSE "entry"
    /\ UNCHANGED << timestamps, clip_duration, seg_pos, start_time, caption_text,
                    word_count, clips, overlay, schedvars, trimvars, srtvars >>

\* main.py:265-273 no timestamps: return the clip; else set up the loop.
Enter ==
    /\ seg_pc = "entry"
    /\ seg_pc' = IF NoTimestamps(timestamps) THEN "returned_clip" ELSE "for"
    /\ seg_pos' = 1
    /\ start_time' = 0
    /\ caption_text' = << >>
    /\ word_count' = 0
    /\ clips' = << >>
    /\ UNCHANGED << timestamps, clip_duration, overlay, schedvars, trimvars, srtvars >>

\* main.py:275-292 one iteration of the for loop.  When the overlay raises,
\* the exception leaves the function at line 286.
NextWord ==
    /\ seg_pc = "for"
    /\ seg_pos <= Len(timestamps)
    /\ LET end == timestamps[seg_pos].timestamp[2]
           word == timestamps[seg_pos].text
           text == AppendWord(caption_text, word)
           count == word_count + 1
       IN /\ caption_text' = IF ClosesCaption(count, word) /\ ~RenderRaises(overlay)
                               THEN << >> ELSE text
          /\ word_count' = IF ClosesCaption(count, word) /\ ~RenderRaises(overlay)
                             THEN 0 ELSE count
          /\ IF ClosesCaption(count, word)
               THEN IF RenderRaises(overlay)
                      THEN /\ seg_pc' = "raised"
                           /\ UNCHANGED << clips, start_time >>
                      ELSE /\ clips' = Append(clips,
                                  AddTextToVideo(Subclip(start_time, end), Strip(text), overlay))
                           /\ start_time' = NextStartTime(start_time, end)
                           /\ UNCHANGED seg_pc
               ELSE UNCHANGED << clips, start_time, seg_pc >>
    /\ seg_pos' = seg_pos + 1
    /\ UNCHANGED << timestamps, clip_duration, overlay, schedvars, trimvars, srtvars >>

\* main.py:294-297 after the loop: what is left becomes the last caption.
Remainder ==
    /\ seg_pc = "for"
    /\ seg_pos > Len(timestamps)
    /\ IF HasRemainder(caption_text)
         THEN IF RenderRaises(overlay)
                THEN /\ seg_pc' = "raised"
                     /\ UNCHANGED clips
                ELSE /\ clips' = Append(clips,
                            AddTextToVideo(Subclip(start_time, clip_duration),
                                           Strip(caption_text), overlay))
                     /\ seg_pc' = "concatenate"
         ELSE /\ seg_pc' = "concatenate"
              /\ UNCHANGED clips
    /\ UNCHANGED << timestamps, clip_duration, seg_pos, start_time, caption_text,
                    word_count, overlay, schedvars, trimvars, srtvars >>

\* main.py:300-302 final_clip = concatenate_videoclips(clips); return it.
Concatenate ==
    /\ seg_pc = "concatenate"
    /\ seg_pc' = "returned_final"
    /\ UNCHANGED << timestamps, clip_duration, seg_pos, start_time, caption_text,
                    word_count, clips, overlay, schedvars, trimvars, srtvars >>

\* The scheduler is not running.
SchedIdle ==
    /\ MAX_NUMBER_OF_PROCESSES = 1
    /\ input_video_names = << >>
    /\ video_queue = << >>
    /\ processes = {}
    /\ processes_status_dict = << >>
    /\ num_active_processes = 0
    /\ main_pc = "off"
    /\ items = {}
    /\ spawned = << >>
    /\ worker = [p \in Pids |-> NoWorker]

SegInit == SegStart /\ SchedIdle /\ TrimIdle /\ SrtIdle

SegNext == Process \/ Enter \/ NextWord \/ Remainder \/ Concatenate

SegSpec == SegInit /\ [][SegNext]_vars

OverlayInit == OverlayStart /\ SchedIdle /\ TrimIdle /\ SrtIdle

\* process() under every outcome of the overlay.
OverlaySpec == OverlayInit /\ [][SegNext]_vars

\* ---------------------------------------------------------------------
\* The trim of start_process (main.py:389-392)
\* ---------------------------------------------------------------------
\* The frame rates tried.
FrameRates == { 24, 25, 30, 60 }

\* main.py:389  round(((duration * 100 // fps) * fps / 100), 2), for a
\* duration given in hundredths of a second and a whole fps, in hundredths of
\* a second: duration * 100 is the number of hundredths, // is the floor
\* division, and the product with fps, divided by 100, has two decimals, which
\* round(., 2) keeps.
EndTime(duration, fps) == (duration \div fps) * fps

\* The state at line 389: process() has returned the output video.
TrimStart ==
    /\ video_duration \in 1..MaxDuration
    /\ video_fps \in FrameRates
    /\ end_time = 0
    /\ trim_pc = "compute"

\* main.py:389
ComputeEndTime ==
    /\ trim_pc = "compute"
    /\ end_time' = EndTime(video_duration, video_fps)
    /\ trim_pc' = "computed"
    /\ UNCHANGED << video_duration, video_fps, schedvars, segvars, srtvars >>

\* main.py:392  output_video = output_video.subclip(t_end=end_time)
TrimOutput ==
    /\ trim_pc = "computed"
    /\ video_duration' = end_time
    /\ trim_pc' = "trimmed"
    /\ UNCHANGED << video_fps, end_time, schedvars, segvars, srtvars >>

TrimInit == TrimStart /\ SchedIdle /\ SegIdle /\ SrtIdle

TrimNext == ComputeEndTime \/ TrimOutput

TrimSpec == TrimInit /\ [][TrimNext]_vars

\* ---------------------------------------------------------------------
\* SRTGenerator.format_srt and format_timestamp (srtgen.py:47-64)
\* ---------------------------------------------------------------------
DigitChars == << "0", "1", "2", "3", "4", "5", "6", "7", "8", "9" >>

\* str(n) for n >= 0
RECURSIVE Decimal(_)
Decimal(n) ==
    IF n < 10 THEN << DigitChars[n + 1] >>
    ELSE Decimal(n \div 10) \o << DigitChars[(n % 10) + 1] >>

\* f"{n:0w}": zeros in front up to the width w, nothing cut off.
RECURSIVE ZeroPadded(_, _)
ZeroPadded(n, w) ==
    IF Len(Decimal(n)) >= w THEN Decimal(n)
    ELSE << "0" >> \o ZeroPadded(n, w - 1)

\* Times are whole hundredths of a second below two seconds
\* (whisper_timestamped rounds its times to two decimals).  These are the
\* ones for which the double (t / 100) % 1, times 1000, falls just below the
\* whole number of milliseconds, so that int() of srtgen.py:63 gives one
\* millisecond less: format_timestamp(1.13) is "00:00:01,129".
TruncatedShort == (113..123) \cup (138..146) \cup (163..168) \cup (188..193)

\* srtgen.py:63  int((seconds % 1) * 1000), seconds = t / 100 as a double
Milliseconds(t) ==
    IF t \in TruncatedShort THEN (t % 100) * 10 - 1 ELSE (t % 100) * 10

\* srtgen.py:58-64 format_timestamp(seconds), seconds = t / 100
FormatTimestamp(t) ==
    LET hours == t \div 360000
        minutes == (t % 360000) \div 6000
        secs == (t % 6000) \div 100
    IN ZeroPadded(hours, 2) \o << ":" >> \o ZeroPadded(minutes, 2) \o << ":" >>
       \o ZeroPadded(secs, 2) \o << "," >> \o ZeroPadded(Milliseconds(t), 3)

\* srtgen.py:54  f"{i + 1}\n{start_time} --> {end_time}\n{text}\n\n", for
\* the i-th segment counted from 1
CueBlock(i, start_str, end_str, text) ==
    Decimal(i) \o << "\n" >> \o start_str \o << " ", "-", "-", ">", " " >> \o end_str
    \o << "\n" >> \o text \o << "\n", "\n" >>

\* The lengths of the segments tried, in hundredths of a second.
SegmentLengths == { 13, 25 }

\* The call format_srt(segments) for at most MaxSegments segments that
\* follow one another: the state at line 49.
SrtStart ==
    /\ \E n \in 0..MaxSegments, first \in 0..99, length \in SegmentLengths :
         segments = [i \in 1..n |->
                       [ start |-> first + (i - 1) * length,
                         end |-> first + i * length,
                         text |-> << Letters[i] >> ]]
    /\ srt_content = << >>
    /\ srt_i = 1
    /\ srt_pc = "for"

\* srtgen.py:50-54 one iteration of the for loop.
FormatSegment ==
    /\ srt_pc = "for"
    /\ srt_i <= Len(segments)
    /\ LET segment == segments[srt_i]
           start_str == FormatTimestamp(segment.start)
           end_str == FormatTimestamp(segment.end)
       IN srt_content' = srt_content \o CueBlock(srt_i, start_str, end_str, segment.text)
    /\ srt_i' = srt_i + 1
    /\ UNCHANGED << segments, srt_pc, schedvars, segvars, trimvars >>

\* srtgen.py:55  return srt_content
ReturnSrt ==
    /\ srt_pc = "for"
    /\ srt_i > Len(segments)
    /\ srt_pc' = "returned"
    /\ UNCHANGED << segments, srt_content, srt_i, schedvars, segvars, trimvars >>

SrtInit == SrtStart /\ SchedIdle /\ SegIdle /\ TrimIdle

SrtNext == FormatSegment \/ ReturnSrt

SrtSpec == SrtInit /\ [][SrtNext]_vars

\* ---------------------------------------------------------------------
\* Properties of the scheduler and its workers
\* ---------------------------------------------------------------------
Started == 1..Len(spawned)

\* The status map marks the job finished (line 421), the value the reap loop
\* tests at line 512.
MarkedComplete(p) == p \in DOMAIN processes_status_dict /\ processes_status_dict[p]

\* The main process has joined the worker and dropped it (lines 513-516).
Reaped(p) == p \in Started /\ p \notin processes

\* The job has a terminal status as far as the scheduler can tell.
JobTerminal(p) == MarkedComplete(p) \/ Reaped(p)

\* The job failed: its write retries ran out (line 411) or an exception
\* ended the worker.
JobFailed(p) == worker[p].errors > 0 \/ worker[p].pc = "crashed"

\* C1: in every reachable state the number of worker processes started and
\* not yet reaped is at most the cap MAX_NUMBER_OF_PROCESSES.
C1_RunningAtMostCap == Cardinality(processes) <= MAX_NUMBER_OF_PROCESSES

\* C1 witness: the cap is reached by two workers while a file still waits.
C1_Witness ==
    /\ Cardinality(processes) = MAX_NUMBER_OF_PROCESSES
    /\ MAX_NUMBER_OF_PROCESSES >= 2
    /\ qsize(video_queue) > 0
    /\ main_pc = "reap"

AllDispatchedAndTerminal ==
    /\ qsize(video_queue) = 0
    /\ Len(spawned) = Len(input_video_names)
    /\ \A p \in Started : JobTerminal(p)

\* C2: the main loop exits only when the queue is empty, every file has been
\* dispatched and no worker is tracked any more (each job terminal), and once
\* every file is dispatched and every job is terminal the loop does exit.
C2_TerminatesIffAllTerminal ==
    /\ [](main_pc = "done" =>
            (AllDispatchedAndTerminal /\ Cardinality(processes) = 0))
    /\ (AllDispatchedAndTerminal ~> (main_pc = "done"))

\* C2 witness: the loop has exited after running several jobs.
C2_Witness == main_pc = "done" /\ Len(spawned) >= 2

\* C3: a worker that dies before marking itself finished is still reclaimed
\* by the scheduler: its slot is freed (and so the loop can end).
C3_CrashedWorkerReclaimed ==
    \A p \in Pids : (worker[p].pc = "crashed") ~> Reaped(p)

\* C4: a write that fails with IOError k < 5 times and then succeeds was
\* attempted k+1 times with k warnings and no exhaustion error, and the job
\* ends marked finished with its output written.
C4_RetryThenSuccess ==
    \A p \in Pids :
        LET w == worker[p]
        IN /\ (w.written /\ w.pc = "close") =>
                 /\ w.io_failures < WriteTries
                 /\ w.attempts = w.io_failures + 1
                 /\ w.warnings = w.io_failures
           /\ w.written => w.errors = 0
           /\ (w.written /\ w.pc \in {"return", "exited"}) => JobTerminal(p)

\* C4 witness: a write has succeeded on the fifth attempt.
C4_Witness ==
    \E p \in Pids :
        /\ worker[p].pc = "close"
        /\ worker[p].written
        /\ worker[p].io_failures = WriteTries - 1

\* C5: after five IOErrors there is no sixth attempt, and the job's status
\* as the scheduler sees it differs from that of a job whose write succeeded.
C5_ExhaustionSurfacedAsFailed ==
    /\ \A p \in Pids : worker[p].attempts <= WriteTries
    /\ \A p, q \in DOMAIN processes_status_dict :
          ( /\ worker[p].errors > 0 /\ worker[p].pc \in {"return", "exited"}
            /\ worker[q].written /\ worker[q].pc \in {"return", "exited"} )
          => processes_status_dict[p] # processes_status_dict[q]

\* C6: a job whose write raised something other than IOError is in a
\* terminal status, and its output was not written.
C6_NonIOErrorEndsFailed ==
    \A p \in Pids :
        worker[p].raised = "write" => (JobTerminal(p) /\ ~worker[p].written)

\* C7: once a job has failed, every other queued file is still dispatched
\* and its worker runs to its end.
C7_FailureIsolated ==
    \A p \in Pids :
        JobFailed(p) ~>
            ( /\ Len(spawned) = Len(input_video_names)
              /\ \A q \in Started \ {p} : ProcessEnded(q) )

\* C8: when a worker has ended, on whatever path, neither its input clip nor
\* its output clip is left open.
C8_ClipsClosedOnEveryExit ==
    \A p \in Pids :
        ProcessEnded(p) =>
            (worker[p].input_video # "open" /\ worker[p].output_video # "open")

\* C9: workers are started in the order the names were put on the queue:
\* the names dispatched so far followed by the queue are the listing, and
\* the k-th worker started got the k-th name.
C9_DispatchIsFIFO ==
    /\ spawned \o video_queue = input_video_names
    /\ \A k \in Started : worker[k].file_name = input_video_names[k]

\* C9 witness: two workers have been started and a third name still waits.
C9_Witness == Len(spawned) = 2 /\ qsize(video_queue) >= 1

\* The workers that were handed the name, and the name's places on the queue.
HandedTo(name) == { p \in Pids : worker[p].pc # "none" /\ worker[p].file_name = name }

QueuedAt(name) == { k \in 1..Len(video_queue) : video_queue[k] = name }

\* C21: every name put on the queue is, at any time, either once on the
\* queue or in the hands of exactly one worker, whatever became of that
\* worker (a failed job's name never returns to the queue and gets no second
\* worker); and when the main loop has ended every name was handed to exactly
\* one worker.
C21_EachFileHandedOnce ==
    \A k \in 1..Len(input_video_names) :
        LET name == input_video_names[k]
        IN /\ Cardinality(HandedTo(name)) + Cardinality(QueuedAt(name)) = 1
           /\ main_pc = "done" => Cardinality(HandedTo(name)) = 1

\* C21 witness: of three names all were handed out, one to a worker that
\* crashed and one to a worker whose write retries ran out.
C21_Witness ==
    /\ Len(input_video_names) = 3
    /\ video_queue = << >>
    /\ \E p, q \in Pids : worker[p].pc = "crashed" /\ worker[q].errors > 0

\* C22: whenever the main process is at the loop test of line 499, the
\* counter num_active_processes is the number of entries of processes and is
\* not negative, so the dispatch guard and the loop test count the same
\* workers.
C22_CounterMatchesProcesses ==
    main_pc = "while" =>
        /\ num_active_processes = Cardinality(processes)
        /\ num_active_processes >= 0
        /\ CanDispatch <=>
              (Cardinality(processes) < MAX_NUMBER_OF_PROCESSES /\ qsize(video_queue) > 0)

\* C22 witness: an iteration starts with one worker tracked after two others
\* were reaped.
C22_Witness ==
    /\ main_pc = "while"
    /\ num_active_processes = 1
    /\ Cardinality({ p \in Pids : Reaped(p) }) = 2

\* C23: every pid marked complete in the status map, and so every pid the
\* reap loop finds complete in its list of items, is a key of processes: the
\* lookup and the delete of lines 513-514 never raise KeyError; and a worker
\* that was joined and removed has no status entry left, so it is never
\* found complete again.
C23_CompletePidIsTracked ==
    /\ main_pc # "KeyError"
    /\ \A p \in DOMAIN processes_status_dict :
          processes_status_dict[p] => p \in processes
    /\ main_pc = "reap" => items \subseteq processes
    /\ \A p \in Pids :
          worker[p].pc = "reaped" =>
              /\ p \notin processes
              /\ p \notin DOMAIN processes_status_dict
              /\ p \notin items

\* C23 witness: the reap loop finds the worker started last complete, after
\* an earlier worker was joined and removed.
C23_Witness ==
    /\ main_pc = "reap"
    /\ Len(spawned) >= 2
    /\ Len(spawned) \in items
    /\ \E p \in Pids : worker[p].pc = "reaped"

\* C18: a step that drops workers from processes drops only workers whose
\* job is marked finished in the status map and whose process has returned,
\* and the active count goes down by exactly the number dropped: no slot is
\* freed for a job that is still running.
C18_SlotFreedOnlyWhenTerminal ==
    [][ /\ \A p \in processes \ processes' :
              MarkedComplete(p) /\ worker[p].pc = "exited"
        /\ num_active_processes' = num_active_processes
                                     + Cardinality(processes' \ processes)
                                     - Cardinality(processes \ processes') ]_vars

\* C18 witness: one worker has been reaped while another is still running.
C18_Witness ==
    \E p, q \in Pids :
        /\ Reaped(p)
        /\ q \in processes
        /\ worker[q].pc \in {"load", "process", "write"}
        /\ num_active_processes = 1


\* ---------------------------------------------------------------------
\* Properties of add_captions_to_video
\* ---------------------------------------------------------------------
\* C10: for every non-empty word sequence the last caption segment ends at
\* the clip's total duration, whatever the last word's end time and also when
\* the last word closes a caption itself.
C10_LastSegmentEndsAtDuration ==
    (seg_pc = "returned_final" /\ Len(timestamps) > 0) =>
        (clips # << >> /\ clips[Len(clips)].end = clip_duration)

\* The words of a string, as str.split() gives them.
RECURSIVE WordsOf(_, _, _)
WordsOf(str, cur, acc) ==
    IF str = << >>
      THEN (IF cur = << >> THEN acc ELSE Append(acc, cur))
      ELSE IF Head(str) \in Whitespace
             THEN WordsOf(Tail(str), << >>, IF cur = << >> THEN acc ELSE Append(acc, cur))
             ELSE WordsOf(Tail(str), Append(cur, Head(str)), acc)

\* " ".join(strs)
RECURSIVE Join(_)
Join(strs) ==
    IF strs = << >> THEN << >>
    ELSE IF Len(strs) = 1 THEN strs[1]
    ELSE strs[1] \o << " " >> \o Join(Tail(strs))

\* The words of the transcription and the texts of the captions, in order.
InputWords == [i \in 1..Len(timestamps) |-> timestamps[i].text]

CaptionTexts == [k \in 1..Len(clips) |-> clips[k].text]

NumWords(text) == Len(WordsOf(text, << >>, << >>))

EndsSentence(word) == EndsWith(word, {".", "!", "?"})

\* The loop is over and words were left for lines 295-297.
LoopOver == seg_pc \in {"concatenate", "returned_final"}

\* The k-th caption is the one of lines 295-297, made of the words left over.
IsRemainder(k) == LoopOver /\ caption_text # << >> /\ k = Len(clips)

\* C11: for a non-empty transcription the captions are contiguous: the first
\* starts at 0 and each one starts where the one before it ended, whatever
\* the silence between the words; and at least one caption is emitted.
C11_SegmentsContiguous ==
    Len(timestamps) > 0 =>
        /\ clips # << >> => clips[1].start = 0
        /\ \A k \in 1..(Len(clips) - 1) : clips[k].end = clips[k + 1].start
        /\ seg_pc = "returned_final" => clips # << >>

\* C11 witness: three captions were made of words with silence between them.
C11_Witness ==
    /\ seg_pc = "returned_final"
    /\ Len(clips) >= 3
    /\ timestamps[2].timestamp[1] > timestamps[1].timestamp[2]

\* C12: no caption holds more than max_caption_words words; every caption but
\* the one made of the words left over holds exactly max_caption_words words
\* or ends with a word that ends in '.', '!' or '?'; and no word before a
\* caption's last ends in one of these (the caption would have closed there).
C12_ClosedByCapOrPunctuation ==
    \A k \in 1..Len(clips) :
        LET words == WordsOf(clips[k].text, << >>, << >>)
        IN /\ Len(words) >= 1
           /\ Len(words) <= max_caption_words
           /\ ~IsRemainder(k) =>
                 (Len(words) = max_caption_words \/ EndsSentence(words[Len(words)]))
           /\ \A j \in 1..(Len(words) - 1) : ~EndsSentence(words[j])

\* C12 witness: one caption was closed by punctuation after fewer words than
\* the cap, the next one by the cap.
C12_Witness ==
    /\ seg_pc = "returned_final"
    /\ Len(clips) >= 2
    /\ NumWords(clips[1].text) < max_caption_words
    /\ EndsSentence(clips[1].text)
    /\ NumWords(clips[2].text) = max_caption_words
    /\ ~EndsSentence(clips[2].text)

\* C13: when the function has returned, the captions' texts joined with
\* single spaces are the words of the transcription joined with single
\* spaces, and split again they are the words, in order, each once.
C13_TextsReproduceWords ==
    seg_pc \in {"returned_final", "returned_clip"} =>
        /\ Join(CaptionTexts) = Join(InputWords)
        /\ WordsOf(Join(CaptionTexts), << >>, << >>) = InputWords

\* C13 witness: nine words or more were spread over three captions or more.
C13_Witness ==
    /\ seg_pc = "returned_final"
    /\ Len(timestamps) >= 9
    /\ Len(clips) >= 3
    /\ caption_text # << >>

\* C14: with an empty transcription process() makes no caption and returns
\* the clip it was given, without calling add_captions_to_video: no subclip,
\* no overlay, no concatenation.
C14_EmptyTranscriptPassesThrough ==
    timestamps = << >> =>
        /\ clips = << >>
        /\ seg_pc \in {"process", "returned_clip"}

\* C14 witness: process() has returned for an empty transcription.
C14_Witness == timestamps = << >> /\ seg_pc = "returned_clip"

\* Every word lasts: its end is after its start.
WordsLast == \A i \in 1..Len(timestamps) :
                 timestamps[i].timestamp[1] < timestamps[i].timestamp[2]

\* C15 as stated: every caption has start < end, for words ordered by start,
\* not overlapping and ending within the clip.
C15_SegmentsNonEmpty ==
    \A k \in 1..Len(clips) : clips[k].start < clips[k].end

\* C15 amended: every caption has start < end, for words ordered by start,
\* not overlapping, ending within the clip and each with start < end.
C15_SegmentsNonEmptyForLastingWords ==
    WordsLast => \A k \in 1..Len(clips) : clips[k].start < clips[k].end

\* C15 witness: lasting words gave two captions or more, the last one made of
\* the words left over and ending with the clip at the last word's end.
C15_Witness ==
    /\ seg_pc = "returned_final"
    /\ WordsLast
    /\ Len(clips) >= 2
    /\ caption_text # << >>
    /\ clip_duration = timestamps[Len(timestamps)].timestamp[2]

\* C19: when the loop ends with words left over, exactly one more caption is
\* emitted: it holds those words, starts where the last closed caption ended
\* (at 0 if none was closed) and ends at the clip's duration, and the captions
\* before it hold the other words.  Nine words without closing punctuation
\* give two captions: words 1-8 from 0 to the eighth word's end, and word 9
\* from there to the clip's duration.
C19_RemainderSegment ==
    (LoopOver /\ caption_text # << >>) =>
        LET k == Len(clips)
            n == Len(timestamps)
            m == Len(WordsOf(caption_text, << >>, << >>))
        IN /\ k >= 1
           /\ m >= 1 /\ m < max_caption_words
           /\ ~EndsSentence(timestamps[n].text)
           /\ clips[k].text = Join(SubSeq(InputWords, n - m + 1, n))
           /\ clips[k].end = clip_duration
           /\ clips[k].start = (IF k = 1 THEN 0 ELSE clips[k - 1].end)
           /\ clips[k].start = (IF m = n THEN 0 ELSE timestamps[n - m].timestamp[2])
           /\ (k = 1) <=> (m = n)
           /\ Join(SubSeq(CaptionTexts, 1, k - 1)) = Join(SubSeq(InputWords, 1, n - m))
           /\ (n = 9 /\ \A i \in 1..n : ~EndsSentence(timestamps[i].text)) =>
                 /\ k = 2
                 /\ clips[1] = [start |-> 0, end |-> timestamps[8].timestamp[2],
                                text |-> Join(SubSeq(InputWords, 1, 8))]
                 /\ clips[2] = [start |-> timestamps[8].timestamp[2], end |-> clip_duration,
                                text |-> timestamps[9].text]

\* C19 witness: nine words without closing punctuation that end at 1..9, in a
\* clip that goes on after the last word, have given two captions.
C19_Witness ==
    /\ seg_pc = "returned_final"
    /\ Len(timestamps) = 9
    /\ \A i \in 1..9 : timestamps[i].timestamp[2] = i /\ ~EndsSentence(timestamps[i].text)
    /\ clip_duration > 9
    /\ Len(clips) = 2

\* ---------------------------------------------------------------------
\* Properties of the overlay, the trim and format_srt
\* ---------------------------------------------------------------------
\* C20: when the overlay cannot be made (the font file is missing, the font
\* does not load, or the text cannot be drawn), process() still returns: no
\* exception leaves it, every caption's stretch of the clip is emitted as it
\* is, without text, and the stretches are the contiguous ones from 0 that
\* the captions would have had.
C20_OverlayFailureDegrades ==
    overlay # "ok" =>
        /\ seg_pc # "raised"
        /\ \A k \in 1..Len(clips) : clips[k] = Subclip(clips[k].start, clips[k].end)
        /\ clips # << >> => clips[1].start = 0
        /\ \A k \in 1..(Len(clips) - 1) : clips[k].end = clips[k + 1].start
        /\ seg_pc = "returned_final" => clips # << >>

\* C16: the end time computed at line 389 is not after the video's end and
\* is a whole number of frames, the largest such: end_time * fps (end_time in
\* hundredths of a second) is a multiple of 100, and it is the number of
\* whole frames in the duration.
C16_EndTimeOnFrameBoundary ==
    trim_pc = "computed" =>
        /\ end_time <= video_duration
        /\ (end_time * video_fps) % 100 = 0
        /\ end_time * video_fps = 100 * ((video_duration * video_fps) \div 100)

\* The time stamp of t hundredths of a second, to the millisecond.
ExactTimestamp(t) ==
    ZeroPadded(t \div 360000, 2) \o << ":" >> \o ZeroPadded((t % 360000) \div 6000, 2)
    \o << ":" >> \o ZeroPadded((t % 6000) \div 100, 2) \o << "," >>
    \o ZeroPadded((t % 100) * 10, 3)

\* The cue blocks of the first n segments, each with its own number, times
\* and text.
RECURSIVE ExpectedCues(_)
ExpectedCues(n) ==
    IF n = 0 THEN << >>
    ELSE ExpectedCues(n - 1)
         \o Decimal(n) \o << "\n" >>
         \o ExactTimestamp(segments[n].start) \o << " ", "-", "-", ">", " " >>
         \o ExactTimestamp(segments[n].end) \o << "\n" >>
         \o segments[n].text \o << "\n", "\n" >>

\* C17: what format_srt returns is one cue block per segment, in the order
\* of the segments, numbered from 1, each with the segment's own start time,
\* end time and text.
C17_OneCuePerSegment ==
    srt_pc = "returned" => srt_content = ExpectedCues(Len(segments))

====
